---- MODULE Spec2Model ----
\* A model of the arena allocator of arena.h and of the length-prefixed string
\* records of str.h.
\*
\* Scale.  The source computes in uint64_t / size_t.  The model keeps the
\* modular arithmetic but in words of WordBits bits (Mod = 2^WordBits), so that
\* every wrap-around of the source has its counterpart here.  Memory is counted
\* in cells, a char taking one.  The two headers keep what matters of their
\* sizes: both are several cells, small beside a region, and sizeof(Str) is
\* large enough for lengths to exist strictly between SIZE_MAX - sizeof(Str)
\* and SIZE_MAX, the lengths for which sizeof(Str) + len wraps to a size > 0.
EXTENDS Integers, Sequences, FiniteSets, TLC

\* ---------------------------------------------------------------- bounds
\* The width of the size type, the checkpoints a client holds at once, the
\* length of the strings it pushes.
WordBits == 4
MaxTemps == 2
MaxStrLen == 1
\* The number of descriptors a process may have open.
MaxFds == 5

\* ------------------------------------------------------------- constants
NULL == 0
\* sizeof(Arena) and sizeof(Str), in cells.
sizeofArena == 3
sizeofStr == 3
\* The platform's page size, sysconf(_SC_PAGESIZE), is 2^PageBits cells.
PageBits == 1

RECURSIVE Pow2(_)
Pow2(n) == IF n = 0 THEN 1 ELSE 2 * Pow2(n - 1)

Mod == Pow2(WordBits)
SIZE_MAX == Mod - 1
PageSize == Pow2(PageBits)

\* Arguments the client passes: any value of the size type.
Sizes == 0 .. SIZE_MAX
\* Requests to ArenaAlloc: the refused ones (0, too large), small ones, and
\* the largest that passes the check of line 45.
AllocSizes == {0, 1, 2, SIZE_MAX - sizeofArena, SIZE_MAX - sizeofArena + 1, SIZE_MAX}
\* Addresses mmap may hand out (page aligned, never 0).
MmapAddrs == {3 * PageSize}
\* The characters of the strings pushed (none is the terminator 0).
Chars == {1, 2}
RECURSIVE SeqsUpTo(_)
SeqsUpTo(n) ==
  IF n = 0 THEN {<<>>}
  ELSE LET S == SeqsUpTo(n - 1)
       IN S \cup {Append(s, c) : s \in {t \in S : Len(t) = n - 1}, c \in Chars}
InStrs == SeqsUpTo(MaxStrLen)
\* The strings whose length is within sizeof(Str) of SIZE_MAX, the largest
\* for which sizeof(Str) + len fits, and the longer ones.
LongStrs == {[i \in 1 .. n |-> 1] : n \in (SIZE_MAX - sizeofStr) .. SIZE_MAX}
\* The strings m_putstr is given: long enough for a write to take a part.
PutStrs == SeqsUpTo(MaxStrLen + 2)
\* The descriptors of the process, 0 .. MaxFds - 1, and the values of the fd
\* argument of m_putstr: these, -1 for stdout, and a value below -1.
Fds == 0 .. MaxFds - 1
PutFds == {-2, -1} \cup Fds

\* A request to ArenaAlloc for a region that holds several records, and the
\* sizes pushed on it: up to a whole record.
StrAllocSizes == {8}
StrSizes == 0 .. sizeofStr + MaxStrLen

VARIABLES
  arena,     \* the client's Arena *: NULL, or the address mmap returned
  mapped,    \* whether the OS mapping behind arena exists
  mapping,   \* what the mmap of ArenaAlloc mapped: its address and length
  base,      \* arena->base
  size,      \* arena->size
  pos,       \* arena->pos
  mem,       \* the usable area: cell offset (from base) -> content
  temps,     \* the ArenaTemp values the client holds, oldest first
  crashed,   \* the process was killed by an access outside its mapping
  fds,       \* the descriptors the process has open
  put,       \* the m_putstr call that is running, or the last that returned
  last       \* the last call: what it was given, what it returned and did

vars ==
  <<arena, mapped, mapping, base, size, pos, mem, temps, crashed, fds, put,
    last>>

\* The record of a call.  op: the function; arg: its argument; ret: what it
\* returned; oldPos: arena->pos on entry; os: the OS memory calls it issued;
\* wr: <<from, to>>, the cell offsets [from, to) it wrote (from = to: none);
\* popFrom: for an ArenaPush that directly follows a successful ArenaPop of
\* the same size, 1 + arena->pos before that ArenaPop, else 0.
Call(op, arg, ret, oldPos, os, wr, popFrom) ==
  [op |-> op, arg |-> arg, ret |-> ret, oldPos |-> oldPos, os |-> os,
   wr |-> wr, popFrom |-> popFrom]

NoWrite == <<0, 0>>

\* The calls that read the header need a mapped region and a running process;
\* the calls that test their Arena * first also take the absent region.
Live == mapped /\ ~crashed
LiveOrAbsent == ~crashed /\ (arena = NULL \/ mapped)

\* The calls are synchronous: none starts while m_putstr is in its loop, and
\* only m_putstr touches descriptors.
NoPut == put.pc # "while" /\ UNCHANGED <<fds, put>>

\* m_putstr's frame.  pc: "none" before the first call, "while" in the loop,
\* "returned" after; present: str # NULL; str: the bytes str->string, and
\* str->size their number; fd, fd_new, total: as in the code; written: the
\* results of the write calls, in order; out: the bytes the sink took;
\* fds0: the open descriptors on entry.
PutFrame(pc, present, str, fd, fd_new, fds0) ==
  [pc |-> pc, present |-> present, str |-> str, fd |-> fd, fd_new |-> fd_new,
   total |-> 0, written |-> <<>>, out |-> <<>>, fds0 |-> fds0]

\* ------------------------------------------------------ integer helpers
\* a & b on words of n bits.
RECURSIVE BitAnd(_, _, _)
BitAnd(a, b, n) ==
  IF n = 0 THEN 0
  ELSE (IF a % 2 = 1 /\ b % 2 = 1 THEN 1 ELSE 0)
       + 2 * BitAnd(a \div 2, b \div 2, n - 1)

\* ~a on a word.
BitNot(a) == SIZE_MAX - a

Init ==
  /\ arena = NULL
  /\ mapped = FALSE
  /\ mapping = [addr |-> NULL, len |-> 0]
  /\ base = NULL
  /\ size = 0
  /\ pos = 0
  /\ mem = [i \in {} |-> 0]
  /\ temps = <<>>
  /\ crashed = FALSE
  /\ fds = {0, 1, 2}
  /\ put = PutFrame("none", FALSE, <<>>, -1, -1, {0, 1, 2})
  /\ last = Call("none", 0, 0, 0, <<>>, NoWrite, 0)

\* ------------------------------------------------------------ ArenaAlloc
\* line 45: the request is refused before any OS call.
AllocRefused(sz) == sz = 0 \/ sz > SIZE_MAX - sizeofArena

\* Mutant of lines 52-53: the rounding without its "+ page_size - 1".
AllocTotal_Floor(sz, page) ==
  BitAnd((sz + sizeofArena) % Mod, BitNot((page - 1) % Mod), WordBits)

\* lines 52-53: (size + sizeof(Arena) + page_size - 1) & ~(page_size - 1),
\* in the unsigned arithmetic of the size type.
AllocTotal(sz, page) ==
  BitAnd((sz + sizeofArena + page - 1) % Mod, BitNot((page - 1) % Mod), WordBits)

\* mmap(NULL, len, ...): EINVAL for a length of 0; otherwise the OS may
\* decline, or map len bytes at an address of its choice.
MmapResults(len) == IF len = 0 THEN {NULL} ELSE {NULL} \cup MmapAddrs

ArenaAlloc(sz) ==
  /\ NoPut
  /\ arena = NULL /\ ~mapped /\ ~crashed
  /\ IF AllocRefused(sz)
     THEN /\ last' = Call("ArenaAlloc", sz, NULL, pos, <<>>, NoWrite, 0)
          /\ UNCHANGED <<arena, mapped, mapping, base, size, pos, mem, temps, crashed>>
     ELSE \E page \in {-1, PageSize} :
       IF page = -1
       THEN /\ last' = Call("ArenaAlloc", sz, NULL, pos, <<>>, NoWrite, 0)
            /\ UNCHANGED <<arena, mapped, mapping, base, size, pos, mem, temps, crashed>>
       ELSE LET total == AllocTotal(sz, page)
                os == <<[call |-> "mmap", addr |-> NULL, len |-> total]>>
            IN \E m \in MmapResults(total) :
                 IF m = NULL
                 THEN /\ last' = Call("ArenaAlloc", sz, NULL, pos, os, NoWrite, 0)
                      /\ UNCHANGED <<arena, mapped, mapping, base, size, pos, mem,
                                     temps, crashed>>
                 ELSE /\ arena' = m
                      /\ mapped' = TRUE
                      /\ mapping' = [addr |-> m, len |-> total]
                      /\ base' = m + sizeofArena
                      /\ size' = (total - sizeofArena) % Mod
                      /\ pos' = 0
                      /\ mem' = [i \in 0 .. ((total - sizeofArena) % Mod) - 1 |-> 0]
                      /\ last' = Call("ArenaAlloc", sz, m, pos, os, NoWrite, 0)
                      /\ UNCHANGED <<temps, crashed>>

\* ---------------------------------------------------------- ArenaRelease
\* munmap(addr, len): EINVAL unless addr is page aligned and len > 0.
MunmapOk(addr, len) == addr % PageSize = 0 /\ len > 0

\* Mutant of line 82: the usable size alone handed back.
ReleaseLen_NoHeader(cap) == cap

\* line 82: the arguments of munmap.
ReleaseAddr(b) == b - sizeofArena
ReleaseLen(cap) == (cap + sizeofArena) % Mod

ArenaRelease ==
  /\ NoPut
  /\ LiveOrAbsent
  /\ IF arena = NULL
     THEN /\ last' = Call("ArenaRelease", arena, -1, pos, <<>>, NoWrite, 0)
          /\ UNCHANGED mapped
     ELSE LET addr == ReleaseAddr(base)
              len == ReleaseLen(size)
          IN /\ last' = Call("ArenaRelease", arena,
                             IF MunmapOk(addr, len) THEN 0 ELSE -1, pos,
                             <<[call |-> "munmap", addr |-> addr, len |-> len]>>,
                             NoWrite, 0)
             /\ mapped' = IF MunmapOk(addr, len) /\ addr = arena THEN FALSE
                          ELSE mapped
  /\ UNCHANGED <<arena, mapping, base, size, pos, mem, temps, crashed>>

\* ------------------------------------------------------------- ArenaPush
\* line 90: !arena || !size.
PushInvalid(a, s) == a = NULL \/ s = 0

\* Mutants of line 95: the bound off by one either way.
PushOOM_Lax(p, s, cap) == (p + s) % Mod > cap + 1
PushOOM_Strict(p, s, cap) == (p + s) % Mod >= cap

\* line 95: arena->pos + size > arena->size, the sum taken in uint64_t.
PushOOM(p, s, cap) == (p + s) % Mod > cap

\* line 99: arena->pos += size.
PushNewPos(p, s) == (p + s) % Mod

\* line 101: arena->base + arena->pos, read after the increment of line 99.
PushAddr(b, p, s) == b + PushNewPos(p, s)

\* lines 88-102 as a function of the header fields: what ArenaPush returns and
\* the value it leaves in arena->pos.
ArenaPushFn(a, b, cap, p, s) ==
  IF PushInvalid(a, s) THEN [ret |-> NULL, pos |-> p]
  ELSE IF PushOOM(p, s, cap) THEN [ret |-> NULL, pos |-> p]
  ELSE [ret |-> PushAddr(b, p, s), pos |-> PushNewPos(p, s)]

\* 1 + the position before the ArenaPop that the call directly follows, when
\* that ArenaPop succeeded and took the same size s; 0 otherwise.
PopFrom(s) ==
  IF last.op = "ArenaPop" /\ last.ret = 0 /\ last.arg = s
  THEN last.oldPos + 1 ELSE 0

ArenaPush(s) ==
  /\ NoPut
  /\ LiveOrAbsent
  /\ LET r == ArenaPushFn(arena, base, size, pos, s)
     IN /\ pos' = r.pos
        /\ last' = Call("ArenaPush", s, r.ret, pos, <<>>, NoWrite, PopFrom(s))
  /\ UNCHANGED <<arena, mapped, mapping, base, size, mem, temps, crashed>>

\* ----------------------------------------------------- ArenaPushZeroInit
\* memset(ptr, 0, n) and memcpy(ptr, src, n) on the usable area: the cells
\* [off, off + Len(vals)) that lie inside it take vals.
WriteCells(m, off, vals) ==
  [i \in DOMAIN m |->
     IF off <= i /\ i < off + Len(vals) THEN vals[i - off + 1] ELSE m[i]]

Zeros(n) == [i \in 1 .. n |-> 0]

\* A write of [off, off + n) runs past the end of the mapping (the usable
\* area ends where the mapping ends, lines 56 and 66-67): undefined behaviour.
\* Either the kernel kills the process, or the store lands in whatever is
\* mapped behind and the call goes on.
OutOfBounds(off, n, cap) == off + n > cap
KillChoices(off, n, cap) == IF OutOfBounds(off, n, cap) THEN BOOLEAN ELSE {FALSE}

ArenaPushZeroInit(s) ==
  /\ NoPut
  /\ LiveOrAbsent
  /\ LET r == ArenaPushFn(arena, base, size, pos, s)
     IN IF r.ret = NULL
        THEN /\ last' = Call("ArenaPushZeroInit", s, NULL, pos, <<>>, NoWrite, 0)
             /\ UNCHANGED <<pos, mem, crashed>>
        ELSE LET off == r.ret - base
             IN \E killed \in KillChoices(off, s, size) :
                  /\ pos' = r.pos
                  /\ mem' = WriteCells(mem, off, Zeros(s))
                  /\ crashed' = killed
                  /\ last' = Call("ArenaPushZeroInit", s,
                                  IF killed THEN NULL ELSE r.ret, pos, <<>>,
                                  <<off, off + s>>, 0)
  /\ UNCHANGED <<arena, mapped, mapping, base, size, temps>>

\* -------------------------------------------------------------- ArenaPop
\* Mutant of line 127: >= for >.
PopUnderflow_Strict(p, s) == s >= p

\* line 127: size > arena->pos.
PopUnderflow(p, s) == s > p

\* Mutant of line 132: = for -=.
ArenaPopFn_Assign(p, s) ==
  IF s > p THEN [ret |-> -1, pos |-> p] ELSE [ret |-> 0, pos |-> s]

\* lines 125-134 as a function of arena->pos.
ArenaPopFn(p, s) ==
  IF PopUnderflow(p, s) THEN [ret |-> -1, pos |-> p]
  ELSE [ret |-> 0, pos |-> p - s]

ArenaPop(s) ==
  /\ NoPut
  /\ Live
  /\ LET r == ArenaPopFn(pos, s)
     IN /\ pos' = r.pos
        /\ last' = Call("ArenaPop", s, r.ret, pos, <<>>, NoWrite, 0)
  /\ UNCHANGED <<arena, mapped, mapping, base, size, mem, temps, crashed>>

\* ------------------------------------------------------- ArenaSetPosBack
\* Mutant of line 143: the comparison turned round.
SetPosAdvances_Reversed(p, target) == target < p

\* line 143: pos > arena->pos.
SetPosAdvances(p, target) == target > p

ArenaSetPosBack(target) ==
  /\ NoPut
  /\ Live
  /\ IF SetPosAdvances(pos, target)
     THEN /\ pos' = pos
          /\ last' = Call("ArenaSetPosBack", target, -1, pos, <<>>, NoWrite, 0)
     ELSE /\ pos' = target
          /\ last' = Call("ArenaSetPosBack", target, 0, pos, <<>>, NoWrite, 0)
  /\ UNCHANGED <<arena, mapped, mapping, base, size, mem, temps, crashed>>

\* ------------------------------------------------------------ ArenaClear
\* line 153.
ClearPos == 0

ArenaClear ==
  /\ NoPut
  /\ Live
  /\ pos' = ClearPos
  /\ last' = Call("ArenaClear", arena, 0, pos, <<>>, NoWrite, 0)
  /\ UNCHANGED <<arena, mapped, mapping, base, size, mem, temps, crashed>>

\* ------------------------------------------------------------- accessors
ArenaGetPos == pos
ArenaGetSize == size
ArenaGetBase == base

\* -------------------------------------------------------- scratch arenas
\* line 206: the ArenaTemp that ArenaScratchBegin builds.
ScratchTemp(a, p) == [arena |-> a, pos |-> p]

\* Mutant of line 210: the checkpoint restored the way ArenaSetPosBack sets a
\* position, only when that retracts.
ScratchEndPos_OnlyBack(temp, p) ==
  IF temp.arena # NULL /\ temp.pos <= p THEN temp.pos ELSE p

\* line 210: arena->pos after ArenaScratchEnd(temp), from its value p before.
ScratchEndPos(temp, p) == IF temp.arena # NULL THEN temp.pos ELSE p

\* An entry of temps: the ArenaTemp the client holds, and (for the record) the
\* position the region had when ArenaScratchBegin made it.
ArenaScratchBegin ==
  /\ NoPut
  /\ Live
  /\ Len(temps) < MaxTemps
  /\ temps' = Append(temps, [temp |-> ScratchTemp(arena, pos), at |-> pos])
  /\ last' = Call("ArenaScratchBegin", arena, 0, pos, <<>>, NoWrite, 0)
  /\ UNCHANGED <<arena, mapped, mapping, base, size, pos, mem, crashed>>

\* The client ends any checkpoint it holds; ending the newest one (top) is the
\* documented discipline.  The checkpoint ended is dropped.
ArenaScratchEnd(i) ==
  /\ NoPut
  /\ Live
  /\ i \in 1 .. Len(temps)
  /\ pos' = ScratchEndPos(temps[i].temp, pos)
  /\ temps' = SubSeq(temps, 1, i - 1) \o SubSeq(temps, i + 1, Len(temps))
  /\ last' = Call("ArenaScratchEnd",
                  [at |-> temps[i].at, top |-> i = Len(temps),
                   depth |-> Len(temps)],
                  0, pos, <<>>, NoWrite, 0)
  /\ UNCHANGED <<arena, mapped, mapping, base, size, mem, crashed>>

\* --------------------------------------------------------------- PushStr
\* line 25: strlen(inStr); the strings of the model hold no terminator inside.
strlen(s) == Len(s)

\* line 29: sizeof(Str) + len, in size_t.
StrBytes(len) == (sizeofStr + len) % Mod

\* A size_t in memory: sizeof(Str) cells of CellBits bits each, the low one
\* first.  SizeField(v, n) is the n low cells of v, FieldValue their value.
CellBits == (WordBits + sizeofStr - 1) \div sizeofStr
Radix == Pow2(CellBits)

RECURSIVE SizeField(_, _)
SizeField(v, n) ==
  IF n = 0 THEN <<>> ELSE <<v % Radix>> \o SizeField(v \div Radix, n - 1)

RECURSIVE FieldValue(_)
FieldValue(cells) ==
  IF cells = <<>> THEN 0 ELSE Head(cells) + Radix * FieldValue(Tail(cells))

\* lines 32-33: the cells the record takes, the size field first.
StrCells(s) == SizeField(strlen(s), sizeofStr) \o s

\* given: FALSE for a NULL inStr.
PushStr(given, inStr) ==
  /\ NoPut
  /\ LiveOrAbsent
  /\ IF arena = NULL \/ ~given \/ strlen(inStr) = SIZE_MAX
     THEN /\ last' = Call("PushStr", inStr, NULL, pos, <<>>, NoWrite, 0)
          /\ UNCHANGED <<pos, mem, crashed>>
     ELSE LET r == ArenaPushFn(arena, base, size, pos, StrBytes(strlen(inStr)))
          IN IF r.ret = NULL
             THEN /\ last' = Call("PushStr", inStr, NULL, pos, <<>>, NoWrite, 0)
                  /\ UNCHANGED <<pos, mem, crashed>>
             ELSE LET off == r.ret - base
                      n == Len(StrCells(inStr))
                  IN \E killed \in KillChoices(off, n, size) :
                       /\ pos' = r.pos
                       /\ mem' = WriteCells(mem, off, StrCells(inStr))
                       /\ crashed' = killed
                       /\ last' = Call("PushStr", inStr,
                                       IF killed THEN NULL ELSE r.ret, pos, <<>>,
                                       <<off, off + n>>, 0)
  /\ UNCHANGED <<arena, mapped, mapping, base, size, temps>>

\* ---------------------------------------------------------------- PopStr
\* line 40: str->size, read at the address str.  Inside the usable area it is
\* the value of the cells there; a field that reaches behind the area is
\* outside the mapping, and reading it is undefined: any value, or the process
\* is killed.
StrSizeRead(str) ==
  IF str - base + sizeofStr <= size
  THEN {FieldValue([i \in 1 .. sizeofStr |-> mem[str - base + i - 1]]) % Mod}
  ELSE Sizes

\* The client passes the address of a record: any cell from base up to the
\* end of the usable area (where a PushStr that fills the region puts it).
PopStr(str) ==
  /\ NoPut
  /\ Live
  /\ str \in base .. base + size
  /\ \E killed \in KillChoices(str - base, sizeofStr, size) :
       IF killed
       THEN /\ crashed' = TRUE
            /\ pos' = pos
            /\ last' = Call("PopStr", str, 0, pos, <<>>, NoWrite, 0)
       ELSE \E v \in StrSizeRead(str) :
              /\ crashed' = crashed
              /\ pos' = ArenaPopFn(pos, StrBytes(v)).pos
              /\ last' = Call("PopStr", str, 0, pos, <<>>, NoWrite, 0)
  /\ UNCHANGED <<arena, mapped, mapping, base, size, mem, temps>>

\* -------------------------------------------------------------- m_putstr
\* line 53, dup(fd): the lowest descriptor that is not open, now open too, or
\* -1 when fd is not open or no descriptor is left.
dup(open, fd) ==
  IF fd \notin open \/ Fds \subseteq open
  THEN [fd |-> -1, open |-> open]
  ELSE LET n == CHOOSE d \in Fds \ open : \A e \in Fds \ open : d <= e
       IN [fd |-> n, open |-> open \cup {n}]

\* lines 48-54: the test of the arguments, fd_new, total = 0.
m_putstr(present, str, fd) ==
  /\ ~crashed /\ put.pc # "while"
  /\ IF ~present \/ fd < -1
     THEN /\ put' = PutFrame("returned", present, str, fd, -1, fds)
          /\ fds' = fds
     ELSE LET d == IF fd = -1 THEN [fd |-> 1, open |-> fds] ELSE dup(fds, fd)
          IN /\ put' = PutFrame("while", present, str, fd, d.fd, fds)
             /\ fds' = d.open
  /\ last' = Call("m_putstr", str, 0, pos, <<>>, NoWrite, 0)
  /\ UNCHANGED <<arena, mapped, mapping, base, size, pos, mem, temps, crashed>>

\* line 55, the loop's condition.
PutstrMore_Short(total, sz) == total + 1 < sz
PutstrMore(total, sz) == total < sz

\* lines 56-58, write(fd_new, str->string + total, count): -1 on a descriptor
\* that is not open; on an open one an error, nothing, or 1 .. count bytes.
WriteResults(open, fd, count) ==
  IF fd \notin open THEN {-1} ELSE {-1} \cup (0 .. count)

\* line 59.
WriteStops(written) == written <= 0

\* What lies at str->string: the payload, then a cell that is not part of it.
StrMem(str) == str \o <<0>>

\* lines 55-62: one turn of the loop: the condition, the write, the break or
\* total += written; the return when the loop is left.
m_putstr_loop ==
  /\ put.pc = "while"
  /\ IF PutstrMore(put.total, strlen(put.str))
     THEN \E written \in WriteResults(fds, put.fd_new,
                                      strlen(put.str) - put.total) :
            put' = IF WriteStops(written)
                   THEN [put EXCEPT !.pc = "returned",
                                    !.written = Append(@, written)]
                   ELSE [put EXCEPT
                           !.total = @ + written,
                           !.written = Append(@, written),
                           !.out = @ \o SubSeq(StrMem(put.str), put.total + 1,
                                               put.total + written)]
     ELSE put' = [put EXCEPT !.pc = "returned"]
  /\ UNCHANGED <<arena, mapped, mapping, base, size, pos, mem, temps, crashed,
                 fds, last>>

\* ------------------------------------------------------------------ Next
Next ==
  \/ \E sz \in AllocSizes : ArenaAlloc(sz)
  \/ ArenaRelease
  \/ \E s \in Sizes : ArenaPush(s)
  \/ \E s \in Sizes : ArenaPushZeroInit(s)
  \/ \E s \in Sizes : ArenaPop(s)
  \/ \E target \in Sizes : ArenaSetPosBack(target)
  \/ ArenaClear
  \/ ArenaScratchBegin
  \/ \E i \in 1 .. MaxTemps : ArenaScratchEnd(i)
  \/ \E s \in InStrs : PushStr(TRUE, s)
  \/ PushStr(FALSE, <<>>)
  \/ \E off \in 0 .. size : PopStr(base + off)

Spec == Init /\ [][Next]_vars

\* The string records on a region with room for several of them: the calls
\* that carve and write, and PopStr to retract.
NextStr ==
  \/ \E sz \in StrAllocSizes : ArenaAlloc(sz)
  \/ \E s \in StrSizes : ArenaPush(s)
  \/ \E s \in StrSizes : ArenaPushZeroInit(s)
  \/ \E s \in InStrs : PushStr(TRUE, s)
  \/ \E off \in 0 .. size : PopStr(base + off)

SpecStr == Init /\ [][NextStr]_vars

\* PushStr on the strings whose length is close to SIZE_MAX.
NextLong ==
  \/ \E sz \in AllocSizes : ArenaAlloc(sz)
  \/ \E s \in Sizes : ArenaPush(s)
  \/ \E s \in Sizes : ArenaPop(s)
  \/ \E s \in LongStrs : PushStr(TRUE, s)
  \/ PushStr(FALSE, <<>>)

SpecLong == Init /\ [][NextLong]_vars

\* m_putstr on its own.  A write call returns, so the loop takes its next
\* turn: weak fairness of the loop's step.
NextPut ==
  \/ \E str \in PutStrs, fd \in PutFds : m_putstr(TRUE, str, fd)
  \/ \E fd \in PutFds : m_putstr(FALSE, <<>>, fd)
  \/ m_putstr_loop

SpecPut == Init /\ [][NextPut]_vars
FairSpecPut == SpecPut /\ WF_vars(m_putstr_loop)

\* ================================================================ claims

\* C1: in every state reached from a successful ArenaAlloc by any calls of
\* the allocator, the scratch and the string operations, with any size
\* arguments, 0 <= arena->pos <= arena->size.
C1_CursorInBounds == arena # NULL => (0 <= pos /\ pos <= size)

\* C1's case: an ArenaPush whose pos + size exceeded the size type has gone
\* through.
C1_Witness ==
  /\ last.op = "ArenaPush" /\ last.ret # NULL
  /\ last.oldPos + last.arg > SIZE_MAX

\* C2: a successful ArenaPush returns the start of the block it carved,
\* base + the position before the call.
C2_PushReturnsBlockStart ==
  (last.op = "ArenaPush" /\ last.ret # NULL) => last.ret = base + last.oldPos

\* C3: ArenaPush on a region fails and leaves the position unchanged whenever
\* size = 0 or size > capacity - position, also when position + size exceeds
\* the size type.
C3_PushFailsBeyondCapacity ==
  (/\ last.op = "ArenaPush" /\ arena # NULL
   /\ (last.arg = 0 \/ last.arg > size - last.oldPos))
  => (last.ret = NULL /\ pos = last.oldPos)

\* C4: ArenaPush with 1 <= size <= capacity - position succeeds and the new
\* position is the old one + size; a push that fills the region succeeds.
C4_PushSucceedsWithinCapacity ==
  (/\ last.op = "ArenaPush" /\ arena # NULL
   /\ 1 <= last.arg /\ last.arg <= size - last.oldPos)
  => (last.ret # NULL /\ pos = last.oldPos + last.arg)

\* C4's case: a push that filled a region exactly.
C4_Witness ==
  /\ last.op = "ArenaPush" /\ arena # NULL
  /\ 1 <= last.arg /\ last.arg = size - last.oldPos
  /\ last.ret # NULL /\ pos = size

\* C5: after ArenaClear the position is 0, and the next successful ArenaPush
\* returns the region's base reference, ArenaGetBase.
C5_ClearThenPushReturnsBase ==
  /\ [][last'.op = "ArenaClear" => pos' = 0]_vars
  /\ [][(last.op = "ArenaClear" /\ last'.op = "ArenaPush" /\ last'.ret # NULL)
        => last'.ret = ArenaGetBase']_vars

\* C6: ArenaPop(size) returns -1 and leaves the position when size exceeds
\* it; otherwise it returns 0 and the position goes down by size.
C6_PopContract ==
  last.op = "ArenaPop" =>
    IF last.arg > last.oldPos
    THEN last.ret = -1 /\ pos = last.oldPos
    ELSE last.ret = 0 /\ pos = last.oldPos - last.arg

\* C6's case: a pop of more than what is left, after pushes and a pop that
\* went through (the position is not 0, the amount fits the region).
C6_Witness ==
  /\ last.op = "ArenaPop" /\ last.ret = -1
  /\ 0 < pos /\ pos < last.arg /\ last.arg <= size

\* C7: ArenaScratchEnd puts the position back where it was at the
\* ArenaScratchBegin that made its checkpoint, whatever was called between.
C7_EndRestoresBegin == last.op = "ArenaScratchEnd" => pos = last.arg.at

\* C7's case: the inner of two nested checkpoints ended, in reverse order of
\* creation, after the position went below the one it captured.
C7_Witness ==
  /\ last.op = "ArenaScratchEnd"
  /\ last.arg.top /\ last.arg.depth = 2
  /\ last.oldPos < last.arg.at

\* C8: ArenaPushZeroInit fails exactly when ArenaPush would, and then changes
\* neither the position nor memory; when it succeeds the position has gone up
\* by size and every cell of the block [oldPos, oldPos + size) is 0.
C8_PushZeroInitContract ==
  (last.op = "ArenaPushZeroInit" /\ arena # NULL /\ ~crashed) =>
    IF ArenaPushFn(arena, base, size, last.oldPos, last.arg).ret = NULL
    THEN last.ret = NULL /\ pos = last.oldPos /\ last.wr = NoWrite
    ELSE /\ last.ret # NULL
         /\ pos = PushNewPos(last.oldPos, last.arg)
         /\ \A i \in DOMAIN mem :
              (last.oldPos <= i /\ i < last.oldPos + last.arg) => mem[i] = 0

\* C9: ArenaSetPosBack(target) returns -1 and leaves the position when target
\* exceeds it; otherwise it returns 0 and the position is target.  The
\* position never goes up.
C9_SetPosBackContract ==
  last.op = "ArenaSetPosBack" =>
    /\ IF last.arg > last.oldPos
       THEN last.ret = -1 /\ pos = last.oldPos
       ELSE last.ret = 0 /\ pos = last.arg
    /\ pos <= last.oldPos

\* C9's case: a position set back below where it was.
C9_Witness ==
  /\ last.op = "ArenaSetPosBack" /\ last.ret = 0
  /\ pos = last.arg /\ 0 < pos /\ pos < last.oldPos

\* C10: a successful ArenaPop(s) directly followed by ArenaPush(s) leaves the
\* position where it was before the ArenaPop.
C10_PopPushRoundTrip ==
  (last.op = "ArenaPush" /\ last.popFrom > 0) => pos = last.popFrom - 1

\* C10's case: such a pair with s > 0, the push having gone through.
C10_Witness ==
  /\ last.op = "ArenaPush" /\ last.popFrom > 0
  /\ last.arg > 0 /\ last.ret # NULL

\* C13: ArenaAlloc(0), and ArenaAlloc(R) for an R for which a step of
\* R + sizeof(Arena) + page_size - 1 exceeds the size type, fail without any
\* mmap call and without a region.
C13_AllocRefusesBeforeOS ==
  (/\ last.op = "ArenaAlloc"
   /\ (last.arg = 0 \/ last.arg + sizeofArena + PageSize - 1 > SIZE_MAX))
  => (last.ret = NULL /\ last.os = <<>> /\ arena = NULL)

\* The least multiple of the page size that is >= n, in the integers.
RoundedTotal(n) == ((n + PageSize - 1) \div PageSize) * PageSize

\* C14: after a successful ArenaAlloc(R) the position is 0, the usable size is
\* roundedTotal - sizeof(Arena), roundedTotal the least multiple of the page
\* size >= R + sizeof(Arena), and so the usable size is >= R.
C14_AllocCapacity ==
  (last.op = "ArenaAlloc" /\ last.ret # NULL) =>
    /\ pos = 0
    /\ size = RoundedTotal(last.arg + sizeofArena) - sizeofArena
    /\ size >= last.arg

\* C14's case: a successful ArenaAlloc whose rounding made the region larger
\* than the request.
C14_Witness ==
  /\ last.op = "ArenaAlloc" /\ last.ret # NULL
  /\ size > last.arg

\* C16: ArenaRelease on a region hands the OS, in one munmap call, exactly
\* the range ArenaAlloc mapped (start base - sizeof(Arena), length the mapped
\* total); on an absent region it fails without an OS call.
C16_ReleaseWholeMapping ==
  last.op = "ArenaRelease" =>
    IF arena = NULL
    THEN last.ret = -1 /\ last.os = <<>>
    ELSE /\ Len(last.os) = 1
         /\ last.os[1].call = "munmap"
         /\ last.os[1].addr = mapping.addr
         /\ last.os[1].len = mapping.len
         /\ mapping.addr = base - sizeofArena
         /\ mapping.len = size + sizeofArena
         /\ last.ret = 0 /\ ~mapped

\* C16's case: a region released after calls that moved its position.
C16_Witness ==
  /\ last.op = "ArenaRelease" /\ arena # NULL
  /\ last.oldPos > 0 /\ ~mapped

\* The record of the string s is readable at offset off of the usable area m
\* of cap cells: it lies inside, size field and payload as PushStr stores them.
RecordIn(m, cap, off, s) ==
  /\ 0 <= off /\ off + sizeofStr + Len(s) <= cap
  /\ FieldValue([i \in 1 .. sizeofStr |-> m[off + i - 1]]) = Len(s)
  /\ \A i \in 1 .. Len(s) : m[off + sizeofStr + i - 1] = s[i]

\* C11: after a successful PushStr the record read through the returned
\* reference has the length and the bytes of the string, and it still has them
\* after a later successful ArenaPush, ArenaPushZeroInit or PushStr.
C11_RecordReadsBack ==
  /\ [][(last'.op = "PushStr" /\ last'.ret # NULL)
        => RecordIn(mem', size', last'.ret - base', last'.arg)]_vars
  /\ [][(/\ last.op = "PushStr" /\ last.ret # NULL
         /\ RecordIn(mem, size, last.ret - base, last.arg)
         /\ last'.op \in {"ArenaPush", "ArenaPushZeroInit", "PushStr"}
         /\ last'.ret # NULL)
        => RecordIn(mem', size', last.ret - base, last.arg)]_vars

\* C12: a successful PushStr moves the position up by sizeof(Str) + len, and
\* PopStr on the record it returned, called next, puts the position back.
C12_PushPopStrRoundTrip ==
  /\ [][(last'.op = "PushStr" /\ last'.ret # NULL)
        => pos' = pos + sizeofStr + Len(last'.arg)]_vars
  /\ [][(/\ last.op = "PushStr" /\ last.ret # NULL
         /\ last'.op = "PopStr" /\ last'.arg = last.ret /\ ~crashed')
        => pos' = last.oldPos]_vars

\* C17: PushStr fails, the position and memory unchanged, for every string
\* with sizeof(Str) + len beyond the size type (len > SIZE_MAX - sizeof(Str)).
C17_PushStrRefusesOverflow ==
  (/\ last.op = "PushStr" /\ arena # NULL
   /\ Len(last.arg) > SIZE_MAX - sizeofStr)
  => (last.ret = NULL /\ ~crashed /\ pos = last.oldPos /\ last.wr = NoWrite)

\* C18: what a successful ArenaPushZeroInit or PushStr writes lies inside the
\* block the call carved, [oldPos, pos), and so inside the usable area.
C18_WritesInsideCarvedBlock ==
  (last.op \in {"ArenaPushZeroInit", "PushStr"} /\ last.ret # NULL) =>
    /\ last.oldPos <= last.wr[1]
    /\ last.wr[2] <= pos
    /\ last.wr[2] <= size

\* C19: the blocks [ret, ret + size) of successful ArenaPush calls with no
\* retraction between them are disjoint, and each lies in the usable area.
\* Stated for a call and for two calls in a row.
C19_PushBlocksDisjoint ==
  /\ [][(last'.op = "ArenaPush" /\ last'.ret # NULL)
        => (base' <= last'.ret /\ last'.ret + last'.arg <= base' + size')]_vars
  /\ [][(/\ last.op = "ArenaPush" /\ last.ret # NULL
         /\ last'.op = "ArenaPush" /\ last'.ret # NULL)
        => (\/ last.ret + last.arg <= last'.ret
            \/ last'.ret + last'.arg <= last.ret)]_vars

\* C15: m_putstr with a record and an fd >= -1 returns; the bytes the sink
\* took are a prefix of the payload; every write but the last reported a
\* positive count; and when all did, the sink took exactly the payload.
C15_PutstrEmits ==
  (put.pc # "none" /\ put.present /\ put.fd >= -1) =>
    /\ Len(put.out) <= strlen(put.str)
    /\ put.out = SubSeq(put.str, 1, Len(put.out))
    /\ \A i \in 1 .. Len(put.written) - 1 : put.written[i] > 0
    /\ (/\ put.pc = "returned"
        /\ \A i \in 1 .. Len(put.written) : put.written[i] > 0)
       => put.out = put.str

C15_PutstrLoop ==
  /\ []C15_PutstrEmits
  /\ (put.pc = "while" ~> put.pc = "returned")

\* A call that took the payload in several writes, each a part of it.
C15_Witness ==
  /\ put.pc = "returned" /\ put.present /\ put.fd >= 0
  /\ Len(put.written) >= 2
  /\ \A i \in 1 .. Len(put.written) : put.written[i] > 0
  /\ put.out = put.str

\* C20: when m_putstr has returned, the open descriptors are those of its
\* entry.
C20_PutstrKeepsDescriptors ==
  put.pc = "returned" => fds = put.fds0

====
